---- MODULE Spec2Model ----
(***************************************************************************)
(* State-machine model of the in-process primitives of the user-data API:  *)
(*   - the LRU cache with TTL and request deduplication                     *)
(*     (src/src/cache/LRUCache.ts, createLRUCache),                         *)
(*   - the priority queue with bounded concurrency                          *)
(*     (src/src/cache/LRUCache.ts, createAsyncQueue),                       *)
(*   - the burst rate limiter (src/unnamed/part_003).                       *)
(* Every JavaScript callback runs to completion on the event loop, so one   *)
(* action is one synchronous run: a call up to its first await, or the      *)
(* continuation of a settled promise.                                       *)
(***************************************************************************)
EXTENDS Integers, Sequences, FiniteSets, TLC

(***************************************************************************)
(* Bounds and configuration                                                *)
(***************************************************************************)
\* Number of steps explored by the cache specification.
MaxOps == 4

\* Number of tasks submitted to the queue.
MaxTasks == 5

\* maxConcurrent of createAsyncQueue.
maxConcurrent == 2

\* priority argument of enqueue, as used by the service.
Priorities == {0, 1, 2}

\* Number of calls made to the user service.
MaxCalls == 3

\* Number of clock steps of the rate limiter.
MaxTicks == 6

\* The RateLimitConfig given to createBurstRateLimiter, scaled down from
\* 10 requests per 60000 ms and 5 per 10000 ms; times are in milliseconds.
maxRequests == 3
timeWindow == 3000
burstCapacity == 2
burstWindow == 1500

Clients == {"a", "b"}

\* The value a task's operation fulfils with and the reason it rejects with.
Results == {1}
TaskErrors == {"E"}

\* config.maxSize and config.ttl of createLRUCache, scaled down (one time
\* unit of the model stands for 30 s of the default 60000 ms).
maxSize == 2
ttl == 2

Keys == 1..(maxSize + 1)
Values == {1, 2}
\* customTtl argument: 0 stands for "not given" (undefined and 0 are both
\* falsy for the || of set).
CustomTtls == {0, 1}
\* size argument of a direct set: 0 stands for "not given", as in every call
\* of set by the service; getOrSet passes the size explicitly.
SizeHints == {0}
\* The rejection reasons of a failing supplier.
Errors == {"E1", "E2"}
\* get's miss value.
Null == 0

VARIABLES
    now,              \* Date.now() of the cache
    cache,            \* Map<string, CacheEntry>: a function on the stored keys
    accessOrder,      \* string[]: most recently used first
    pendingFetches,   \* Map<string, Promise>: key -> index into fetches
    cleanupInterval,  \* TRUE while the setInterval timer is installed
    stats,            \* the stats object
    totalResponseTime,\* the sum updateStats keeps
    totalRequests,    \* the count updateStats keeps
    fetches,          \* the fetchPromise objects created so far
    callers,          \* the getOrSet calls made so far
    lastTouch,        \* history: step of the last successful get or set of a key
    stored,           \* history: time and effective ttl of the last set of a key
    lastFailed,       \* history: keys whose latest fetch settled with a failure
    ev,               \* history: the operation of the last step
    nops              \* history: number of steps taken

cacheVars == <<now, cache, accessOrder, pendingFetches, cleanupInterval, stats,
               totalResponseTime, totalRequests, fetches, callers, lastTouch, stored, lastFailed, ev, nops>>

VARIABLES
    queue,            \* QueueItem[]: the pending tasks, front first
    isProcessing,     \* the re-entrancy flag of processQueue
    activeWorkers,
    completedTasks,
    failedTasks,
    tasks,            \* history: every task submitted so far and its promise
    survivors         \* history: the active tasks that were running at a clear

queueVars == <<queue, isProcessing, activeWorkers, completedTasks, failedTasks, tasks,
               survivors>>

VARIABLES
    rticks,           \* the clock of the rate limiter, in steps of 500 ms
    requests,         \* Map<string, RateLimitData>
    allowedLog,       \* history: per client, the times of its allowed checks
    lastCheck,        \* history: the client and the result of the latest check
    burstDenied       \* history: the clients the burst window has denied

limiterVars == <<rticks, requests, allowedLog, lastCheck, burstDenied>>

VARIABLES
    mockUsers,        \* Map<number, User> of the service: id -> name
    nextId,
    jobs,             \* what the service submitted as task i of its queue
    svcEv,            \* history: the latest step of the service
    ncalls            \* history: number of calls made to the service

svcVars == <<mockUsers, nextId, jobs, svcEv, ncalls>>

vars == <<cacheVars, queueVars, limiterVars, svcVars>>

(***************************************************************************)
(* Helpers on sequences and maps                                           *)
(***************************************************************************)
Last(s) == s[Len(s)]

Front(s) == SubSeq(s, 1, Len(s) - 1)

Range(s) == {s[i] : i \in 1..Len(s)}

\* Array.prototype.indexOf, 1-based; 0 when absent.
IndexOf(s, x) ==
    IF x \in Range(s) THEN CHOOSE i \in 1..Len(s) : s[i] = x /\ \A j \in 1..(i - 1) : s[j] # x
    ELSE 0

\* Array.prototype.splice(index, 1)
RemoveAt(s, i) == SubSeq(s, 1, i - 1) \o SubSeq(s, i + 1, Len(s))

MapSet(m, k, v) == [x \in DOMAIN m \cup {k} |-> IF x = k THEN v ELSE m[x]]

MapDelete(m, k) == [x \in DOMAIN m \ {k} |-> m[x]]

EmptyMap == [x \in {} |-> 0]

(***************************************************************************)
(* createLRUCache: the synchronous functions.  Each takes and returns the   *)
(* part of the closure it reads and writes, st = [cache, accessOrder,       *)
(* stats].                                                                  *)
(***************************************************************************)
InitStats ==
    [hits |-> 0, misses |-> 0, size |-> 0, totalSizeBytes |-> 0,
     averageResponseTime |-> 0, evictions |-> 0, staleEntriesCleaned |-> 0]

\* Variant of expired: the entry already counts as expired at expiresAt.
expiredAtDeadline(entry, t) == t >= entry.expiresAt

\* now > entry.expiresAt, the test of get, has and cleanupStaleEntries
expired(entry, t) == t > entry.expiresAt

\* Buffer.byteLength(JSON.stringify(data)): the two values of the model
\* serialise to different lengths.
calculateSize(data) == 10 * data

\* Variant of removeFromAccessOrder: the key is left where it is.
removeFromAccessOrderKeeps(order, key) == order

removeFromAccessOrder(order, key) ==
    LET index == IndexOf(order, key)
    IN IF index > 0 THEN RemoveAt(order, index) ELSE order

\* Variant of updateAccessOrder: push instead of unshift.
updateAccessOrderPush(order, key) == removeFromAccessOrder(order, key) \o <<key>>

updateAccessOrder(order, key) == <<key>> \o removeFromAccessOrder(order, key)

evictLRU(st) ==
    IF Len(st.accessOrder) = 0 THEN st
    ELSE LET lruKey == Last(st.accessOrder)
             order == Front(st.accessOrder)
         IN IF lruKey \in DOMAIN st.cache
            THEN LET c == MapDelete(st.cache, lruKey)
                 IN [cache |-> c,
                     accessOrder |-> order,
                     stats |-> [st.stats EXCEPT
                         !.totalSizeBytes = @ - st.cache[lruKey].size,
                         !.evictions = @ + 1,
                         !.size = Cardinality(DOMAIN c)]]
            ELSE [st EXCEPT !.accessOrder = order]

deleteEntry(st, key) ==
    IF key \in DOMAIN st.cache
    THEN LET c == MapDelete(st.cache, key)
         IN [cache |-> c,
             accessOrder |-> removeFromAccessOrder(st.accessOrder, key),
             stats |-> [st.stats EXCEPT
                 !.totalSizeBytes = @ - st.cache[key].size,
                 !.size = Cardinality(DOMAIN c)]]
    ELSE st

\* customTtl || config.ttl
effectiveTtl(customTtl) == IF customTtl # 0 THEN customTtl ELSE ttl

\* Variant of mustEvict: > instead of >=.
mustEvictWhenOver(st, key) ==
    Cardinality(DOMAIN st.cache) > maxSize /\ key \notin DOMAIN st.cache

\* Variant of mustEvict: the test that the key is new is left out.
mustEvictAtCapacity(st, key) == Cardinality(DOMAIN st.cache) >= maxSize

\* cache.size >= config.maxSize && !cache.has(key)
mustEvict(st, key) == Cardinality(DOMAIN st.cache) >= maxSize /\ key \notin DOMAIN st.cache

set(st, key, data, customTtl, size, t) ==
    LET entrySize == IF size # 0 THEN size ELSE calculateSize(data)
        entry == [data |-> data, expiresAt |-> t + effectiveTtl(customTtl),
                  lastAccessed |-> t, size |-> entrySize]
        s1 == IF mustEvict(st, key) THEN evictLRU(st) ELSE st
        isUpdate == key \in DOMAIN s1.cache
        c == MapSet(s1.cache, key, entry)
        \* oldEntry is read after cache.set(key, entry): it is the new entry
        oldEntry == c[key]
    IN [cache |-> c,
        accessOrder |-> updateAccessOrder(s1.accessOrder, key),
        stats |-> [s1.stats EXCEPT
            !.size = Cardinality(DOMAIN c),
            !.totalSizeBytes = IF isUpdate THEN (@ - oldEntry.size) + entrySize
                               ELSE @ + entrySize]]

\* get returns the new closure state, the returned value and whether the
\* lazy expiry branch ran.
get(st, key, t) ==
    IF key \notin DOMAIN st.cache
    THEN [st |-> [st EXCEPT !.stats.misses = @ + 1], ret |-> Null, lazy |-> FALSE]
    ELSE IF expired(st.cache[key], t)
    THEN [st |-> [deleteEntry(st, key) EXCEPT !.stats.misses = @ + 1],
          ret |-> Null, lazy |-> TRUE]
    ELSE [st |-> [cache |-> [st.cache EXCEPT ![key].lastAccessed = t],
                  accessOrder |-> updateAccessOrder(st.accessOrder, key),
                  stats |-> [st.stats EXCEPT !.hits = @ + 1]],
          ret |-> st.cache[key].data, lazy |-> FALSE]

has(st, key, t) ==
    IF key \notin DOMAIN st.cache
    THEN [st |-> st, ret |-> FALSE, lazy |-> FALSE]
    ELSE IF expired(st.cache[key], t)
    THEN [st |-> deleteEntry(st, key), ret |-> FALSE, lazy |-> TRUE]
    ELSE [st |-> st, ret |-> TRUE, lazy |-> FALSE]

\* The loop of cleanupStaleEntries deletes every expired key; the order of
\* the deletions does not change the result.
RECURSIVE deleteAll(_, _)
deleteAll(st, ks) ==
    IF ks = {} THEN st
    ELSE LET k == CHOOSE x \in ks : TRUE IN deleteAll(deleteEntry(st, k), ks \ {k})

cleanupStaleEntries(st, t) ==
    LET stale == {k \in DOMAIN st.cache : expired(st.cache[k], t)}
        cleanedCount == Cardinality(stale)
        s1 == deleteAll(st, stale)
    IN IF cleanedCount > 0
       THEN [s1 EXCEPT !.stats.staleEntriesCleaned = @ + cleanedCount]
       ELSE s1

\* updateStats, on rt = [totalResponseTime, totalRequests]
updateStats(rt, responseTime) ==
    [totalResponseTime |-> rt.totalResponseTime + responseTime,
     totalRequests |-> rt.totalRequests + 1]

\* getStats.  stats.averageResponseTime is the dividend; it is 0 in every
\* state, so the quotient is exact.
getStats(st) ==
    LET total == st.stats.hits + st.stats.misses
    IN [hits |-> st.stats.hits,
        misses |-> st.stats.misses,
        size |-> st.stats.size,
        totalSizeBytes |-> st.stats.totalSizeBytes,
        averageResponseTime |->
            IF total > 0 THEN st.stats.averageResponseTime \div total ELSE 0,
        evictions |-> st.stats.evictions,
        staleEntriesCleaned |-> st.stats.staleEntriesCleaned]

\* Variant of clear: the entries go, the counters of past activity stay.
clearEntriesOnly(st) ==
    [cache |-> EmptyMap, accessOrder |-> <<>>,
     stats |-> [st.stats EXCEPT !.size = 0, !.totalSizeBytes = 0]]

\* clear: the part on cache, accessOrder and stats
clear(st) == [cache |-> EmptyMap, accessOrder |-> <<>>, stats |-> InitStats]

St == [cache |-> cache, accessOrder |-> accessOrder, stats |-> stats]

Commit(st) ==
    /\ cache' = st.cache
    /\ accessOrder' = st.accessOrder
    /\ stats' = st.stats

Rt == [totalResponseTime |-> totalResponseTime, totalRequests |-> totalRequests]

CommitRt(rt) ==
    /\ totalResponseTime' = rt.totalResponseTime
    /\ totalRequests' = rt.totalRequests

(***************************************************************************)
(* History kept for the properties                                         *)
(***************************************************************************)
Event(op, key, ret, lazy, fetch) ==
    [op |-> op, key |-> key, ret |-> ret, lazy |-> lazy, fetch |-> fetch]

\* The keys in the order of their latest touch (successful get, or set),
\* latest first; kept for every key ever touched, stored or not.
Touch(order, key) == <<key>> \o SelectSeq(order, LAMBDA x : x # key)

Step(e) ==
    /\ nops < MaxOps
    /\ nops' = nops + 1
    /\ ev' = e
    /\ UNCHANGED <<queueVars, limiterVars, svcVars>>

(***************************************************************************)
(* The cache: one action per call or continuation                          *)
(***************************************************************************)
CacheInit ==
    /\ now = 0
    /\ cache = EmptyMap
    /\ accessOrder = <<>>
    /\ pendingFetches = EmptyMap
    /\ cleanupInterval = TRUE
    /\ stats = InitStats
    /\ totalResponseTime = 0
    /\ totalRequests = 0
    /\ fetches = <<>>
    /\ callers = <<>>
    /\ lastTouch = <<>>
    /\ stored = EmptyMap
    /\ lastFailed = {}
    /\ ev = Event("init", 0, Null, FALSE, 0)
    /\ nops = 0

\* Time passes between two callbacks.
Tick ==
    /\ Step(Event("tick", 0, Null, FALSE, 0))
    /\ now' = now + 1
    /\ UNCHANGED <<cache, accessOrder, pendingFetches, cleanupInterval, stats,
                   fetches, callers, lastTouch, stored, lastFailed>>
    /\ UNCHANGED <<totalResponseTime, totalRequests>>

Get(key) ==
    LET g == get(St, key, now)
    IN /\ Step(Event("get", key, g.ret, g.lazy, 0))
       /\ Commit(g.st)
       /\ lastTouch' = IF g.ret # Null THEN Touch(lastTouch, key) ELSE lastTouch
       /\ UNCHANGED <<now, pendingFetches, cleanupInterval, fetches, callers,
                      stored, lastFailed>>
       /\ UNCHANGED <<totalResponseTime, totalRequests>>

Set(key, data, customTtl, size) ==
    /\ Step(Event("set", key, Null, FALSE, 0))
    /\ Commit(set(St, key, data, customTtl, size, now))
    /\ lastTouch' = Touch(lastTouch, key)
    /\ stored' = MapSet(stored, key, [at |-> now, ttl |-> effectiveTtl(customTtl)])
    /\ UNCHANGED <<now, pendingFetches, cleanupInterval, fetches, callers, lastFailed>>
    /\ UNCHANGED <<totalResponseTime, totalRequests>>

Has(key) ==
    LET h == has(St, key, now)
    IN /\ Step(Event("has", key, h.ret, h.lazy, 0))
       /\ Commit(h.st)
       /\ UNCHANGED <<now, pendingFetches, cleanupInterval, fetches, callers,
                      lastTouch, stored, lastFailed>>
       /\ UNCHANGED <<totalResponseTime, totalRequests>>

\* deleteFn
Delete(key) ==
    /\ Step(Event("delete", key, key \in DOMAIN cache, FALSE, 0))
    /\ Commit(deleteEntry(St, key))
    /\ UNCHANGED <<now, pendingFetches, cleanupInterval, fetches, callers,
                   lastTouch, stored, lastFailed>>
    /\ UNCHANGED <<totalResponseTime, totalRequests>>

Clear ==
    /\ Step(Event("clear", 0, Null, FALSE, 0))
    /\ Commit(clear(St))
    /\ pendingFetches' = EmptyMap
    /\ UNCHANGED <<now, cleanupInterval, fetches, callers, lastTouch, stored, lastFailed>>
    /\ UNCHANGED <<totalResponseTime, totalRequests>>

StopCleanup ==
    /\ cleanupInterval
    /\ Step(Event("stopCleanup", 0, Null, FALSE, 0))
    /\ cleanupInterval' = FALSE
    /\ UNCHANGED <<now, cache, accessOrder, pendingFetches, stats, fetches, callers,
                   lastTouch, stored, lastFailed>>
    /\ UNCHANGED <<totalResponseTime, totalRequests>>

\* destroy: stopCleanup(); clear(); pendingFetches.clear()
Destroy ==
    /\ Step(Event("destroy", 0, Null, FALSE, 0))
    /\ cleanupInterval' = FALSE
    /\ Commit(clear(St))
    /\ pendingFetches' = EmptyMap
    /\ UNCHANGED <<now, fetches, callers, lastTouch, stored, lastFailed>>
    /\ UNCHANGED <<totalResponseTime, totalRequests>>

\* The setInterval callback; it runs only while the timer is installed.
Sweep ==
    /\ cleanupInterval
    /\ Step(Event("sweep", 0, Null, FALSE, 0))
    /\ Commit(cleanupStaleEntries(St, now))
    /\ UNCHANGED <<now, pendingFetches, cleanupInterval, fetches, callers,
                   lastTouch, stored, lastFailed>>
    /\ UNCHANGED <<totalResponseTime, totalRequests>>

(***************************************************************************)
(* getOrSet.  The call runs synchronously up to `await fetchPromise`: the   *)
(* pendingFetches test, get, the start of the supplier inside the async     *)
(* closure and pendingFetches.set.  The closure resumes when the supplier's *)
(* promise settles (FetchResolve, FetchReject); every caller resumes once   *)
(* fetchPromise is settled (Resume).                                        *)
(***************************************************************************)
Caller(key, fetch, role, status, result, startTime) ==
    [key |-> key, fetch |-> fetch, role |-> role, status |-> status, result |-> result,
     startTime |-> startTime]

\* if (pendingFetches.has(key)) return pendingFetches.get(key)
joinsPending(pend, key) == key \in DOMAIN pend

\* try { data = await fetchFn(); set(key, data, customTtl, calculateSize(data)) }
\* finally { pendingFetches.delete(key) }, when the supplier fulfils
fetchFulfilled(st, pend, key, data, customTtl, t) ==
    [st |-> set(st, key, data, customTtl, calculateSize(data), t),
     pending |-> MapDelete(pend, key)]

\* Variant of fetchRejected: the registration is dropped on success only.
fetchRejectedKeepsPending(st, pend, key) == [st |-> st, pending |-> pend]

\* the same closure when the supplier rejects: only the finally block runs
fetchRejected(st, pend, key) ==
    [st |-> st, pending |-> MapDelete(pend, key)]

\* what `await fetchPromise` gives a caller of a settled fetch
awaitFetch(f) ==
    [status |-> IF f.status = "resolved" THEN "returned" ELSE "threw",
     result |-> f.result]

GetOrSet(key, customTtl) ==
    /\ lastFailed' = lastFailed \ {key}
    /\ IF joinsPending(pendingFetches, key)
       THEN /\ Step(Event("getOrSet", key, "joined", FALSE, pendingFetches[key]))
            /\ callers' = Append(callers,
                   Caller(key, pendingFetches[key], "joined", "waiting", Null, now))
            /\ UNCHANGED <<now, cache, accessOrder, pendingFetches, cleanupInterval,
                           stats, totalResponseTime, totalRequests, fetches,
                           lastTouch, stored>>
       ELSE LET g == get(St, key, now)
            IN IF g.ret # Null
               THEN /\ Step(Event("getOrSet", key, "hit", FALSE, 0))
                    /\ Commit(g.st)
                    /\ callers' = Append(callers,
                           Caller(key, 0, "hit", "returned", g.ret, now))
                    /\ CommitRt(updateStats(Rt, now - now))
                    /\ lastTouch' = Touch(lastTouch, key)
                    /\ UNCHANGED <<now, pendingFetches, cleanupInterval, fetches, stored>>
               ELSE /\ Step(Event("getOrSet", key, "started", g.lazy, Len(fetches) + 1))
                    /\ Commit(g.st)
                    /\ fetches' = Append(fetches,
                           [key |-> key, customTtl |-> customTtl,
                            status |-> "running", result |-> Null])
                    /\ pendingFetches' = MapSet(pendingFetches, key, Len(fetches) + 1)
                    /\ callers' = Append(callers,
                           Caller(key, Len(fetches) + 1, "started", "waiting", Null, now))
                    /\ UNCHANGED <<now, cleanupInterval, totalResponseTime,
                                   totalRequests, lastTouch, stored>>

FetchResolve(f, data) ==
    /\ fetches[f].status = "running"
    /\ LET key == fetches[f].key
           r == fetchFulfilled(St, pendingFetches, key, data, fetches[f].customTtl, now)
       IN /\ Step(Event("resolve", key, data, FALSE, f))
          /\ Commit(r.st)
          /\ pendingFetches' = r.pending
          /\ fetches' = [fetches EXCEPT ![f].status = "resolved", ![f].result = data]
          /\ lastTouch' = Touch(lastTouch, key)
          /\ stored' = MapSet(stored, key,
                 [at |-> now, ttl |-> effectiveTtl(fetches[f].customTtl)])
          /\ UNCHANGED <<now, cleanupInterval, callers, lastFailed>>
    /\ UNCHANGED <<totalResponseTime, totalRequests>>

FetchReject(f, err) ==
    /\ fetches[f].status = "running"
    /\ LET key == fetches[f].key
           r == fetchRejected(St, pendingFetches, key)
       IN /\ Step(Event("reject", key, err, FALSE, f))
          /\ Commit(r.st)
          /\ pendingFetches' = r.pending
          /\ fetches' = [fetches EXCEPT ![f].status = "rejected", ![f].result = err]
          /\ lastFailed' = lastFailed \cup {key}
          /\ UNCHANGED <<now, cleanupInterval, callers, lastTouch, stored>>
    /\ UNCHANGED <<totalResponseTime, totalRequests>>

Resume(c) ==
    /\ callers[c].status = "waiting"
    /\ fetches[callers[c].fetch].status # "running"
    /\ LET a == awaitFetch(fetches[callers[c].fetch])
       IN /\ Step(Event("resume", callers[c].key, a.result, FALSE, callers[c].fetch))
          /\ callers' = [callers EXCEPT ![c].status = a.status, ![c].result = a.result]
          \* only the call that started the fetch goes on to updateStats, and
          \* only when the await did not throw
          /\ IF callers[c].role = "started" /\ a.status = "returned"
             THEN CommitRt(updateStats(Rt, now - callers[c].startTime))
             ELSE UNCHANGED <<totalResponseTime, totalRequests>>
    /\ UNCHANGED <<now, cache, accessOrder, pendingFetches, cleanupInterval, stats,
                   fetches, lastTouch, stored, lastFailed>>

\* Keys are opaque strings, so a key no call has used yet is named by the next
\* free number: the keys in use are always 1..n.
UsedKeys == Range(lastTouch) \cup {fetches[i].key : i \in 1..Len(fetches)}

CallKeys == {k \in Keys : k <= Cardinality(UsedKeys) + 1}

CacheNext ==
    \/ Tick
    \/ \E k \in CallKeys : Get(k)
    \/ \E k \in CallKeys, v \in Values, t \in CustomTtls, z \in SizeHints : Set(k, v, t, z)
    \/ \E k \in CallKeys : Has(k)
    \/ \E k \in CallKeys : Delete(k)
    \/ Clear
    \/ StopCleanup
    \/ Destroy
    \/ Sweep
    \/ \E k \in CallKeys, t \in CustomTtls : GetOrSet(k, t)
    \/ \E f \in 1..Len(fetches), v \in Values : FetchResolve(f, v)
    \/ \E f \in 1..Len(fetches), e \in Errors : FetchReject(f, e)
    \/ \E c \in 1..Len(callers) : Resume(c)


(***************************************************************************)
(* Properties of the cache                                                 *)
(***************************************************************************)
NoLiveEntry(k) == k \notin DOMAIN cache \/ expired(cache[k], now)

RunningFor(k) ==
    {f \in 1..Len(fetches) : fetches[f].key = k /\ fetches[f].status = "running"}

\* C1: a getOrSet call made while a supplier run for its key is in progress
\* and the key has no live entry starts no supplier and shares that run,
\* and the callers of one run all receive its outcome.
C1_SingleFlight ==
    [][/\ \A k \in Keys :
            (ev'.op = "getOrSet" /\ ev'.key = k /\ NoLiveEntry(k) /\ RunningFor(k) # {})
                => (Len(fetches') = Len(fetches) /\ RunningFor(k) = {ev'.fetch})
       /\ \A c \in 1..Len(callers') :
            (callers'[c].role # "hit" /\ callers'[c].status # "waiting")
                => callers'[c].result = fetches'[callers'[c].fetch].result]_vars

\* C2: in every state, every key has at most one supplier run in progress.
C2_AtMostOneSupplierPerKey == \A k \in Keys : Cardinality(RunningFor(k)) <= 1

\* C3: the cache never holds more than maxSize entries.
C3_SizeWithinMax == Cardinality(DOMAIN cache) <= maxSize

C3_Witness ==
    /\ ev.op = "set"
    /\ stats.evictions >= 1
    /\ Cardinality(DOMAIN cache) = maxSize

\* The stored key whose latest touch is the oldest.
OldestTouched ==
    CHOOSE e \in DOMAIN cache :
        \A o \in DOMAIN cache : IndexOf(lastTouch, e) >= IndexOf(lastTouch, o)

\* C4: a step that stores a new key while the cache holds maxSize entries
\* removes exactly the stored key whose latest touch (successful get, or
\* set) is the oldest, and no other key.
C4_EvictsLeastRecentlyTouched ==
    [][\A k \in Keys :
          (k \notin DOMAIN cache /\ k \in DOMAIN cache'
              /\ Cardinality(DOMAIN cache) = maxSize)
          => DOMAIN cache' = (DOMAIN cache \ {OldestTouched}) \cup {k}]_vars

\* set(1), set(2), get(1), set(3) with maxSize = 2 leaves exactly 1 and 3.
C4_Witness ==
    /\ maxSize = 2
    /\ nops = 4
    /\ ev.op = "set" /\ ev.key = 3
    /\ stats.hits = 1 /\ stats.evictions = 1
    /\ DOMAIN cache = {1, 3}

\* C5: get and has on a stored key report a miss and remove the entry when
\* now - s > t, for the time s and the effective ttl t of its latest set,
\* and report the entry present otherwise.
C5_ExpiryAwareLookup ==
    [][\A k \in Keys :
          (ev'.op \in {"get", "has"} /\ ev'.key = k /\ k \in DOMAIN cache)
          => IF now - stored[k].at > stored[k].ttl
             THEN /\ k \notin DOMAIN cache'
                  /\ ev'.op = "get" => ev'.ret = Null
                  /\ ev'.op = "has" => ev'.ret = FALSE
             ELSE /\ k \in DOMAIN cache'
                  /\ ev'.op = "get" => ev'.ret = cache[k].data
                  /\ ev'.op = "has" => ev'.ret = TRUE]_vars

\* An expired entry reported as a miss by get before any sweep removed one.
C5_Witness ==
    /\ ev.op = "get" /\ ev.lazy
    /\ ev.ret = Null
    /\ stats.staleEntriesCleaned = 0

\* C6: when a supplier fails, the step stores nothing and leaves the key
\* unregistered; every caller of that fetch receives the failure itself;
\* and the next getOrSet of the key, finding no live entry, starts the
\* supplier again.
C6_FailedFetchNotCached ==
    [][/\ ev'.op = "reject"
            => /\ cache' = cache
               /\ accessOrder' = accessOrder
               /\ ev'.key \notin DOMAIN pendingFetches'
               /\ fetches'[ev'.fetch].result = ev'.ret
       /\ \A c \in 1..Len(callers) :
            (callers[c].status = "waiting" /\ callers'[c].status # "waiting"
                /\ fetches[callers[c].fetch].status = "rejected")
            => /\ callers'[c].status = "threw"
               /\ callers'[c].result = fetches[callers[c].fetch].result
       /\ \A k \in Keys :
            (ev'.op = "getOrSet" /\ ev'.key = k /\ k \in lastFailed /\ NoLiveEntry(k))
            => /\ ev'.ret = "started"
               /\ fetches'[ev'.fetch].status = "running"]_vars

\* A fetch failed, a caller received the failure, and the next getOrSet of
\* the key started the supplier again.
C6_Witness ==
    /\ ev.op = "getOrSet" /\ ev.ret = "started"
    /\ \E f \in 1..Len(fetches) :
          /\ fetches[f].key = ev.key
          /\ fetches[f].status = "rejected"
          /\ f < ev.fetch
          /\ \E c \in 1..Len(callers) :
                callers[c].fetch = f /\ callers[c].status = "threw"

\* The sum of the sizes of the entries of a cache mapping.
RECURSIVE SumSizes(_, _)
SumSizes(m, ks) ==
    IF ks = {} THEN 0
    ELSE LET k == CHOOSE x \in ks : TRUE IN m[k].size + SumSizes(m, ks \ {k})

\* C13: in every state, the totalSizeBytes statistic equals the sum of the
\* sizes of the stored entries.
C13_TotalSizeIsSum == stats.totalSizeBytes = SumSizes(cache, DOMAIN cache)

\* The stored keys whose entry has expired.
Stale == {k \in DOMAIN cache : expired(cache[k], now)}

\* The part of the cache state that the two ways of removal are compared on.
Observed(st) ==
    [cache |-> st.cache, accessOrder |-> st.accessOrder, size |-> st.stats.size,
     totalSizeBytes |-> st.stats.totalSizeBytes, evictions |-> st.stats.evictions,
     staleEntriesCleaned |-> st.stats.staleEntriesCleaned]

\* C14: a get or has that removes the one expired entry through its lazy
\* check leaves the entry mapping, the recency ordering, size,
\* totalSizeBytes, evictions and staleEntriesCleaned as the background
\* sweep run in the same state would leave them.
C14_LazyEqualsSweep ==
    [][(ev'.op \in {"get", "has"} /\ ev'.lazy /\ Stale = {ev'.key})
          => Observed([cache |-> cache', accessOrder |-> accessOrder', stats |-> stats'])
                = Observed(cleanupStaleEntries(St, now))]_vars

\* C15: a step of get, has or the sweep that removes an expired entry
\* leaves staleEntriesCleaned or evictions larger than it was.
C15_RemovalCounted ==
    [][(/\ ev'.op \in {"get", "has", "sweep"}
        /\ \E k \in Stale : k \notin DOMAIN cache')
          => \/ stats'.staleEntriesCleaned > stats.staleEntriesCleaned
             \/ stats'.evictions > stats.evictions]_vars

\* C16: the averageResponseTime that getStats reports, multiplied by
\* hits + misses, is the sum of the response latencies getOrSet has
\* recorded, and it is 0 when hits + misses = 0; so it is non-zero once a
\* non-zero latency has been recorded.
C16_AverageResponseTime ==
    LET total == stats.hits + stats.misses
        reported == getStats(St).averageResponseTime
    IN IF total = 0 THEN reported = 0
       ELSE reported * total = totalResponseTime

\* C19: in the state a clear() or destroy() leaves, the entry mapping, the
\* recency ordering and the in-flight mapping are empty and hits, misses,
\* size, totalSizeBytes, evictions and staleEntriesCleaned are 0; destroy()
\* also removes the sweep timer, the timer is never installed again, and no
\* sweep runs without it.
C19_ClearAndDestroy ==
    [][/\ ev'.op \in {"clear", "destroy"} =>
            /\ cache' = EmptyMap
            /\ accessOrder' = <<>>
            /\ pendingFetches' = EmptyMap
            /\ stats'.hits = 0 /\ stats'.misses = 0
            /\ stats'.size = 0 /\ stats'.totalSizeBytes = 0
            /\ stats'.evictions = 0 /\ stats'.staleEntriesCleaned = 0
       /\ ev'.op = "destroy" => ~cleanupInterval'
       /\ ~cleanupInterval => (~cleanupInterval' /\ ev'.op # "sweep")]_vars

\* destroy() has just run on a cache that held an entry, had counted the
\* miss of a getOrSet and had the fetch of that call in flight.
C19_Witness ==
    /\ ev.op = "destroy"
    /\ Len(lastTouch) > 0
    /\ \E f \in 1..Len(fetches) : fetches[f].status = "running"
    /\ pendingFetches = EmptyMap /\ cache = EmptyMap
    /\ stats = InitStats
    /\ ~cleanupInterval

\* C21: a set on a stored key, by a direct call or by the completion of a
\* getOrSet fetch, leaves the key set of the cache and the evictions counter
\* as they were, also when the cache holds maxSize entries.
C21_UpdateNeverEvicts ==
    [][(ev'.op \in {"set", "resolve"} /\ ev'.key \in DOMAIN cache)
          => /\ DOMAIN cache' = DOMAIN cache
             /\ stats'.evictions = stats.evictions]_vars

\* set(1), set(2), set(1) with maxSize = 2: the third call finds the cache
\* full and its key stored.
C21_Witness ==
    /\ maxSize = 2
    /\ nops = 3 /\ now = 0
    /\ ev.op = "set" /\ ev.key = 1
    /\ lastTouch = <<1, 2>>
    /\ DOMAIN cache = {1, 2}
    /\ stats.evictions = 0

\* C22: in every state, the recency ordering holds exactly the keys of the
\* entry mapping, each of them once.
C22_OrderMatchesEntries ==
    /\ Range(accessOrder) = DOMAIN cache
    /\ Len(accessOrder) = Cardinality(DOMAIN cache)

\* An entry was evicted by a set at capacity and another has just been
\* deleted, leaving one entry.
C22_Witness ==
    /\ ev.op = "delete" /\ ev.ret = TRUE
    /\ stats.evictions = 1
    /\ Len(accessOrder) = 1
    /\ Len(lastTouch) = maxSize + 1

\* C23: a step removes the in-flight registration of a key only if it is
\* the settling, by fulfilment or rejection, of the fetch that the
\* registration names, and it never replaces the registration.
C23_RegistrationRemovedBySettling ==
    [][\A k \in DOMAIN pendingFetches :
          IF k \in DOMAIN pendingFetches'
          THEN pendingFetches'[k] = pendingFetches[k]
          ELSE ev'.op \in {"resolve", "reject"} /\ ev'.fetch = pendingFetches[k]]_vars

(***************************************************************************)
(* createAsyncQueue.  processQueue contains no await, so a call of it runs  *)
(* to completion; q = [queue, isProcessing, activeWorkers].                 *)
(***************************************************************************)
\* Variant of canDispatch: <= instead of <.
canDispatchUpTo(q) == Len(q.queue) > 0 /\ q.activeWorkers <= maxConcurrent

\* while (queue.length > 0 && activeWorkers < maxConcurrent)
canDispatch(q) == Len(q.queue) > 0 /\ q.activeWorkers < maxConcurrent

\* The loop body: item = queue.shift(); activeWorkers++; item.task() ...
RECURSIVE dispatch(_)
dispatch(r) ==
    IF canDispatch(r.q)
    THEN dispatch([q |-> [r.q EXCEPT !.queue = Tail(@), !.activeWorkers = @ + 1],
                   started |-> Append(r.started, Head(r.q.queue).id)])
    ELSE r

\* Variant of processQueue: it dispatches only when no task is active.
processQueueWhenIdle(q) ==
    IF q.isProcessing \/ q.activeWorkers > 0
    THEN [q |-> q, started |-> <<>>]
    ELSE LET r == dispatch([q |-> [q EXCEPT !.isProcessing = TRUE], started |-> <<>>])
         IN [q |-> [r.q EXCEPT !.isProcessing = FALSE], started |-> r.started]

\* Returns the new q and the ids of the tasks it started, in order.
processQueue(q) ==
    IF q.isProcessing \/ q.activeWorkers >= maxConcurrent
    THEN [q |-> q, started |-> <<>>]
    ELSE LET r == dispatch([q |-> [q EXCEPT !.isProcessing = TRUE], started |-> <<>>])
         IN [q |-> [r.q EXCEPT !.isProcessing = FALSE], started |-> r.started]

\* Variant of insertAt: a new task goes before the tasks of its own priority.
insertAtOrEqual(items, priority) ==
    IF \E i \in 1..Len(items) : items[i].priority <= priority
    THEN CHOOSE i \in 1..Len(items) :
            /\ items[i].priority <= priority
            /\ \A j \in 1..(i - 1) : ~(items[j].priority <= priority)
    ELSE 0

\* The for loop of enqueue: the first index whose priority is lower than the
\* new task's; 0 when there is none.
insertAt(items, priority) ==
    IF \E i \in 1..Len(items) : items[i].priority < priority
    THEN CHOOSE i \in 1..Len(items) :
            /\ items[i].priority < priority
            /\ \A j \in 1..(i - 1) : ~(items[j].priority < priority)
    ELSE 0

\* queue.splice(i, 0, item), or queue.push(item)
enqueue(items, item) ==
    LET i == insertAt(items, item.priority)
    IN IF i > 0 THEN SubSeq(items, 1, i - 1) \o <<item>> \o SubSeq(items, i, Len(items))
       ELSE Append(items, item)

\* Variant of onRejected: the failure is tallied as a completion too.
onRejectedCountsBoth(t, error) ==
    [completed |-> 1, failed |-> 1, future |-> [state |-> "rejected", value |-> error]]

\* Variant of onFulfilled: the result is counted but item.resolve is not
\* called.
onFulfilledSilent(t, result) ==
    [completed |-> 1, failed |-> 0, future |-> [state |-> "pending", value |-> 0]]

\* .then(result => { completedTasks++; item.resolve(result) })
onFulfilled(t, result) ==
    [completed |-> 1, failed |-> 0, future |-> [state |-> "resolved", value |-> result]]

\* .catch(error => { failedTasks++; item.reject(error) })
onRejected(t, error) ==
    [completed |-> 0, failed |-> 1, future |-> [state |-> "rejected", value |-> error]]

\* Variant of onFinally: the slot is freed but nothing is dispatched.
onFinallyIdle(q) ==
    [q |-> [q EXCEPT !.activeWorkers = @ - 1, !.isProcessing = FALSE], started |-> <<>>]

\* .finally(() => { activeWorkers--; isProcessing = false; processQueue() })
onFinally(q) ==
    processQueue([q EXCEPT !.activeWorkers = @ - 1, !.isProcessing = FALSE])

\* The history of one task: how often its operation was started and its
\* promise settled, what the operation ended with and the state of the
\* promise enqueue returned.
NewTask ==
    [state |-> "pending", starts |-> 0, settles |-> 0,
     outcome |-> [kind |-> "none", value |-> 0],
     future |-> [state |-> "pending", value |-> 0]]

\* item.task() is called for every id of started.
MarkStarted(ts, started) ==
    [t \in 1..Len(ts) |->
        IF t \in Range(started)
        THEN [ts[t] EXCEPT !.state = "running",
                           !.starts = @ + Cardinality({i \in 1..Len(started) : started[i] = t})]
        ELSE ts[t]]

Q == [queue |-> queue, isProcessing |-> isProcessing, activeWorkers |-> activeWorkers]

QueueInit ==
    /\ queue = <<>>
    /\ isProcessing = FALSE
    /\ activeWorkers = 0
    /\ completedTasks = 0
    /\ failedTasks = 0
    /\ tasks = <<>>
    /\ survivors = {}

\* enqueue(task, priority, id): the Promise executor inserts the item and
\* calls processQueue.
Enqueue(priority) ==
    /\ UNCHANGED <<cacheVars, limiterVars, svcVars>>
    /\ Len(tasks) < MaxTasks
    /\ LET id == Len(tasks) + 1
           r == processQueue([Q EXCEPT
                    !.queue = enqueue(queue, [id |-> id, priority |-> priority])])
       IN /\ queue' = r.q.queue
          /\ isProcessing' = r.q.isProcessing
          /\ activeWorkers' = r.q.activeWorkers
          /\ tasks' = MarkStarted(Append(tasks, NewTask), r.started)
    /\ UNCHANGED <<completedTasks, failedTasks, survivors>>

\* The operation of a started task settles and the .then or .catch handler
\* of processQueue runs.
TaskSettle(t, kind, value) ==
    /\ UNCHANGED <<cacheVars, limiterVars, svcVars>>
    /\ tasks[t].state = "running"
    /\ LET h == IF kind = "ok" THEN onFulfilled(t, value) ELSE onRejected(t, value)
       IN /\ completedTasks' = completedTasks + h.completed
          /\ failedTasks' = failedTasks + h.failed
          /\ tasks' = [tasks EXCEPT ![t].state = "settled",
                                    ![t].outcome = [kind |-> kind, value |-> value],
                                    ![t].settles = @ + 1,
                                    ![t].future = h.future]
    /\ UNCHANGED <<queue, isProcessing, activeWorkers, survivors>>

\* The .finally handler, a later microtask than the .then/.catch handler.
TaskFinally(t) ==
    /\ UNCHANGED <<cacheVars, limiterVars, svcVars>>
    /\ tasks[t].state = "settled"
    /\ LET r == onFinally(Q)
       IN /\ queue' = r.q.queue
          /\ isProcessing' = r.q.isProcessing
          /\ activeWorkers' = r.q.activeWorkers
          /\ tasks' = MarkStarted([tasks EXCEPT ![t].state = "done"], r.started)
    /\ survivors' = survivors \ {t}
    /\ UNCHANGED <<completedTasks, failedTasks>>

\* Variant of clearPending: the task at the front is left in place.
clearPendingButFront(items) == IF Len(items) > 0 THEN <<Head(items)>> ELSE <<>>

\* queue = []
clearPending(items) == <<>>

\* clear
QueueClear ==
    /\ UNCHANGED <<cacheVars, limiterVars, svcVars>>
    /\ queue' = clearPending(queue)
    /\ tasks' = [t \in 1..Len(tasks) |->
                    IF tasks[t].state = "pending"
                    THEN [tasks[t] EXCEPT !.state = "cleared"] ELSE tasks[t]]
    /\ survivors' = survivors \cup {t \in 1..Len(tasks) : tasks[t].state = "running"}
    /\ UNCHANGED <<isProcessing, activeWorkers, completedTasks, failedTasks>>

QueueNext ==
    \/ \E p \in Priorities : Enqueue(p)
    \/ \E t \in 1..Len(tasks), v \in Results : TaskSettle(t, "ok", v)
    \/ \E t \in 1..Len(tasks), e \in TaskErrors : TaskSettle(t, "error", e)
    \/ \E t \in 1..Len(tasks) : TaskFinally(t)
    \/ QueueClear

(***************************************************************************)
(* createBurstRateLimiter                                                  *)
(***************************************************************************)
\* Date.now() of the rate limiter
rnow == 500 * rticks

\* Variant of Ceil: the quotient is rounded down.
CeilDown(x, d) == x \div d

\* Math.ceil(x / d)
Ceil(x, d) == -((-x) \div d)

\* Math.min(...timestamps)
Min(ts) == CHOOSE x \in Range(ts) : \A y \in Range(ts) : x <= y

\* Variant of prune: a timestamp exactly one window old is kept.
pruneInclusive(ts, window, t) == SelectSeq(ts, LAMBDA x : t - x <= window)

\* timestamps.filter(ts => now - ts < window)
prune(ts, window, t) == SelectSeq(ts, LAMBDA x : t - x < window)

\* Variant of burstFull: > instead of >=.
burstOver(data) == Len(data.burstTimestamps) > burstCapacity

\* userData.burstTimestamps.length >= config.burstCapacity
burstFull(data) == Len(data.burstTimestamps) >= burstCapacity

\* userData.timestamps.length >= config.maxRequests
sustainedFull(data) == Len(data.timestamps) >= maxRequests

\* Variant of remainingAfter: the request being recorded is not counted.
remainingBefore(timestamps) == maxRequests - (Len(timestamps) - 1)

\* Math.max(0, config.maxRequests - userData.timestamps.length)
remainingAfter(timestamps) ==
    IF maxRequests - Len(timestamps) > 0 THEN maxRequests - Len(timestamps) ELSE 0

Denied(retryAfter, t) ==
    [allowed |-> FALSE, retryAfter |-> retryAfter, limit |-> maxRequests,
     remaining |-> 0, reset |-> t + retryAfter * 1000]

\* isAllowed returns the new map and the RateLimitResult.  The pruned
\* sequences are written to the client's record, which is the object of the
\* map when the client has one; a new record is stored only when allowed.
isAllowed(reqs, ip, t) ==
    LET old == IF ip \in DOMAIN reqs THEN reqs[ip]
               ELSE [timestamps |-> <<>>, burstTimestamps |-> <<>>]
        userData == [timestamps |-> prune(old.timestamps, timeWindow, t),
                     burstTimestamps |-> prune(old.burstTimestamps, burstWindow, t)]
        kept == IF ip \in DOMAIN reqs THEN MapSet(reqs, ip, userData) ELSE reqs
    IN IF burstFull(userData)
       THEN [requests |-> kept,
             result |-> Denied(Ceil(Min(userData.burstTimestamps) + burstWindow - t, 1000), t)]
       ELSE IF sustainedFull(userData)
       THEN [requests |-> kept,
             result |-> Denied(Ceil(Min(userData.timestamps) + timeWindow - t, 1000), t)]
       ELSE LET recorded == [timestamps |-> Append(userData.timestamps, t),
                             burstTimestamps |-> Append(userData.burstTimestamps, t)]
            IN [requests |-> MapSet(reqs, ip, recorded),
                result |-> [allowed |-> TRUE, retryAfter |-> 0, limit |-> maxRequests,
                            remaining |-> remainingAfter(recorded.timestamps),
                            reset |-> t + timeWindow]]

\* Variant of cleanup: a record is deleted as soon as its burst sequence is
\* empty.
cleanupIdleBurst(reqs, t) ==
    LET pruned == [ip \in DOMAIN reqs |->
                      [timestamps |-> prune(reqs[ip].timestamps, timeWindow, t),
                       burstTimestamps |-> prune(reqs[ip].burstTimestamps, burstWindow, t)]]
        live == {ip \in DOMAIN reqs : Len(pruned[ip].burstTimestamps) # 0}
    IN [ip \in live |-> pruned[ip]]

\* cleanup: prunes every record and deletes the records left empty
cleanup(reqs, t) ==
    LET pruned == [ip \in DOMAIN reqs |->
                      [timestamps |-> prune(reqs[ip].timestamps, timeWindow, t),
                       burstTimestamps |-> prune(reqs[ip].burstTimestamps, burstWindow, t)]]
        live == {ip \in DOMAIN reqs :
                    ~(Len(pruned[ip].timestamps) = 0 /\ Len(pruned[ip].burstTimestamps) = 0)}
    IN [ip \in live |-> pruned[ip]]

LimiterInit ==
    /\ rticks = 0
    /\ requests = EmptyMap
    /\ allowedLog = [ip \in Clients |-> <<>>]
    /\ lastCheck = [ip |-> "-", result |-> Denied(0, 0)]
    /\ burstDenied = {}

\* Time passes between two requests.
LimiterTick ==
    /\ UNCHANGED <<cacheVars, queueVars, svcVars>>
    /\ rticks < MaxTicks
    /\ rticks' = rticks + 1
    /\ UNCHANGED <<requests, allowedLog, lastCheck, burstDenied>>

\* rateLimiter.isAllowed(ip)
Check(ip) ==
    /\ UNCHANGED <<cacheVars, queueVars, svcVars>>
    /\ LET r == isAllowed(requests, ip, rnow)
       IN /\ requests' = r.requests
          /\ allowedLog' = IF r.result.allowed
                           THEN [allowedLog EXCEPT ![ip] = Append(@, rnow)]
                           ELSE allowedLog
          /\ lastCheck' = [ip |-> ip, result |-> r.result]
          /\ burstDenied' = IF ~r.result.allowed /\ burstFull(r.requests[ip])
                            THEN burstDenied \cup {ip} ELSE burstDenied
    /\ UNCHANGED rticks

\* The setInterval(cleanup, 60_000) callback.
LimiterSweep ==
    /\ UNCHANGED <<cacheVars, queueVars, svcVars>>
    /\ requests' = cleanup(requests, rnow)
    /\ UNCHANGED <<rticks, allowedLog, lastCheck, burstDenied>>

LimiterNext ==
    \/ LimiterTick
    \/ \E ip \in Clients : Check(ip)
    \/ LimiterSweep

(***************************************************************************)
(* userService (src/src/services/UserService.ts): one cache and one queue,  *)
(* and the user table.  A user is its name and the cache key user:<id> is   *)
(* the id.  pendingFetches maps a key to the task whose promise the         *)
(* supplier returned.                                                       *)
(*                                                                         *)
(* The tasks of getUserById and createUser first wait for a timer, so they  *)
(* do their work in the callback of the timer.  The tasks of updateUser and *)
(* deleteUser have no await: item.task() runs them to their end inside      *)
(* processQueue, and the .then handler is the next job.  The jobs that      *)
(* follow the read of a fetch run in a fixed order with no call of the      *)
(* service between them: the .then handler resolves the promise of the     *)
(* task, the closure of getOrSet stores the value and removes the           *)
(* registration, and only then the .finally handler dispatches; they are    *)
(* one step here, followed by the step of the .finally handler.  When the   *)
(* fetch fails the closure runs one job after the .finally handler; the     *)
(* tasks that handler can start read no registration, so the closure is     *)
(* kept in the step of the fetch.                                           *)
(***************************************************************************)
Names == Values

SvcEvent(op, id, served) == [op |-> op, id |-> id, served |-> served]

SvcInit ==
    /\ mockUsers = [id \in {1} |-> 1]
    /\ nextId = 2
    /\ jobs = <<>>
    /\ svcEv = SvcEvent("init", 0, "-")
    /\ ncalls = 0

SvcUnchanged ==
    UNCHANGED <<limiterVars, now, cleanupInterval, fetches, callers, lastTouch, stored,
                lastFailed, ev, nops, survivors>>

\* What the tasks of the service read and write: the user table, the cache,
\* the tasks of the queue and its count of completed ones.
World ==
    [users |-> mockUsers, st |-> St, ts |-> tasks, completed |-> completedTasks]

Settled(ts, t, kind, value, h) ==
    [ts EXCEPT ![t].state = "settled",
               ![t].outcome = [kind |-> kind, value |-> value],
               ![t].settles = @ + 1,
               ![t].future = h.future]

\* Variant of updateBody: the table is written, the cache is not.
updateBodyTableOnly(w, id, name) ==
    IF id \in DOMAIN w.users
    THEN [w |-> [w EXCEPT !.users = MapSet(w.users, id, name)], value |-> name]
    ELSE [w |-> w, value |-> Null]

\* The task of updateUser: null when the table has no such user, otherwise
\* mockUsers.set(id, updatedUser) and cache.set(key, copy).
updateBody(w, id, name) ==
    IF id \in DOMAIN w.users
    THEN [w |-> [w EXCEPT !.users = MapSet(w.users, id, name),
                          !.st = set(w.st, id, name, 0, 0, now)],
          value |-> name]
    ELSE [w |-> w, value |-> Null]

\* The task of deleteUser: mockUsers.delete(id) and cache.delete(key); its
\* value is 1 when the user existed.
deleteBody(w, id) ==
    [w |-> [w EXCEPT !.users = MapDelete(w.users, id), !.st = deleteEntry(w.st, id)],
     value |-> IF id \in DOMAIN w.users THEN 1 ELSE 0]

\* item.task() for the tasks of started, in order: a task of updateUser or
\* deleteUser runs to its end and its .then handler follows; the others
\* wait for their timer.
RECURSIVE runStarted(_, _, _)
runStarted(w, started, js) ==
    IF started = <<>> THEN w
    ELSE LET t == Head(started)
             job == js[t]
             b == IF job.kind = "update" THEN updateBody(w, job.id, job.name)
                  ELSE deleteBody(w, job.id)
             h == onFulfilled(t, b.value)
         IN IF job.kind \in {"update", "delete"}
            THEN runStarted([b.w EXCEPT !.ts = Settled(b.w.ts, t, "ok", b.value, h),
                                        !.completed = @ + h.completed],
                            Tail(started), js)
            ELSE runStarted(w, Tail(started), js)

\* processQueue or the .finally handler has given r = [q, started].
CommitDispatch(w, r, js) ==
    \E d \in {r} :
    \E w2 \in {runStarted([w EXCEPT !.ts = MarkStarted(w.ts, d.started)], d.started, js)} :
       /\ mockUsers' = w2.users
       /\ Commit(w2.st)
       /\ tasks' = w2.ts
       /\ completedTasks' = w2.completed
       /\ queue' = d.q.queue
       /\ isProcessing' = d.q.isProcessing
       /\ activeWorkers' = d.q.activeWorkers

\* asyncQueue.enqueue(task, priority, id) called by the service, the cache
\* being st at the call.
Submit(st, job, priority) ==
    LET id == Len(tasks) + 1
        r == processQueue([Q EXCEPT
                 !.queue = enqueue(queue, [id |-> id, priority |-> priority])])
    IN /\ CommitDispatch([World EXCEPT !.st = st, !.ts = Append(tasks, NewTask)],
                         r, Append(jobs, job))
       /\ jobs' = Append(jobs, job)

\* getUserById up to its await: cache.getOrSet, whose supplier submits the
\* fetch with priority 1.
GetUserById(id) ==
    /\ ncalls < MaxCalls
    /\ ncalls' = ncalls + 1
    /\ SvcUnchanged
    /\ UNCHANGED <<nextId, failedTasks>>
    /\ IF joinsPending(pendingFetches, id)
       THEN /\ svcEv' = SvcEvent("getUserById", id, "joined")
            /\ UNCHANGED <<cache, accessOrder, stats, pendingFetches, totalResponseTime,
                           totalRequests, queue, isProcessing, activeWorkers, tasks, jobs,
                           mockUsers, completedTasks>>
       ELSE LET g == get(St, id, now)
            IN IF g.ret # Null
               THEN /\ svcEv' = SvcEvent("getUserById", id, "cache")
                    /\ Commit(g.st)
                    /\ CommitRt(updateStats(Rt, now - now))
                    /\ UNCHANGED <<pendingFetches, queue, isProcessing, activeWorkers,
                                   tasks, jobs, mockUsers, completedTasks>>
               ELSE /\ svcEv' = SvcEvent("getUserById", id, "fetch")
                    /\ Submit(g.st, [kind |-> "fetch", id |-> id, name |-> 0], 1)
                    /\ pendingFetches' = MapSet(pendingFetches, id, Len(tasks) + 1)
                    /\ UNCHANGED <<totalResponseTime, totalRequests>>

\* createUser, updateUser, deleteUser up to their await:
\* concurrentManager.execute under a key no other call uses, which submits
\* the task with priority 2.
Call(op, job) ==
    /\ ncalls < MaxCalls
    /\ ncalls' = ncalls + 1
    /\ SvcUnchanged
    /\ svcEv' = SvcEvent(op, job.id, "-")
    /\ Submit(St, job, 2)
    /\ UNCHANGED <<nextId, failedTasks, pendingFetches, totalResponseTime, totalRequests>>

CreateUser(name) == Call("createUser", [kind |-> "create", id |-> 0, name |-> name])

UpdateUser(id, name) == Call("updateUser", [kind |-> "update", id |-> id, name |-> name])

DeleteUser(id) == Call("deleteUser", [kind |-> "delete", id |-> id, name |-> 0])

\* The task of createUser after its timer: it adds the user to the table and
\* calls cache.delete on the user's key.
createBody(st, users, id, name) ==
    [users |-> MapSet(users, id, name), st |-> deleteEntry(st, id), value |-> id]

\* The timer of a started creation fires; the operation fulfils and the
\* .then handler of processQueue runs.
CreateBody(t) ==
    /\ tasks[t].state = "running"
    /\ jobs[t].kind = "create"
    /\ SvcUnchanged
    /\ LET b == createBody(St, mockUsers, nextId, jobs[t].name)
           h == onFulfilled(t, b.value)
       IN /\ mockUsers' = b.users
          /\ nextId' = nextId + 1
          /\ Commit(b.st)
          /\ jobs' = [jobs EXCEPT ![t].id = nextId]
          /\ svcEv' = SvcEvent("created", nextId, "-")
          /\ completedTasks' = completedTasks + h.completed
          /\ failedTasks' = failedTasks + h.failed
          /\ tasks' = Settled(tasks, t, "ok", b.value, h)
    /\ UNCHANGED <<ncalls, pendingFetches, totalResponseTime, totalRequests, queue,
                   isProcessing, activeWorkers>>

\* The timer of a started fetch fires: the operation fulfils with a copy of
\* the user, or rejects when the table has none; the .then or .catch
\* handler of processQueue settles the promise of the task; the closure of
\* getOrSet stores the value or not and removes the registration of the
\* key, and the call that started the fetch counts its response time when
\* it has a value.
FetchBody(t) ==
    /\ tasks[t].state = "running"
    /\ jobs[t].kind = "fetch"
    /\ SvcUnchanged
    /\ LET found == jobs[t].id \in DOMAIN mockUsers
           value == IF found THEN mockUsers[jobs[t].id] ELSE 0
           h == IF found THEN onFulfilled(t, value) ELSE onRejected(t, value)
           r == IF found
                THEN fetchFulfilled(St, pendingFetches, jobs[t].id, value, 0, now)
                ELSE fetchRejected(St, pendingFetches, jobs[t].id)
       IN /\ completedTasks' = completedTasks + h.completed
          /\ failedTasks' = failedTasks + h.failed
          /\ tasks' = Settled(tasks, t, IF found THEN "ok" ELSE "error", value, h)
          /\ Commit(r.st)
          /\ pendingFetches' = r.pending
          /\ IF found THEN CommitRt(updateStats(Rt, now - now))
             ELSE UNCHANGED <<totalResponseTime, totalRequests>>
    /\ svcEv' = SvcEvent("fetched", jobs[t].id, "-")
    /\ UNCHANGED <<ncalls, mockUsers, nextId, jobs, queue, isProcessing, activeWorkers>>

\* The .finally handler of processQueue for a task of the service.
SvcTaskFinally(t) ==
    /\ tasks[t].state = "settled"
    /\ SvcUnchanged
    /\ CommitDispatch([World EXCEPT !.ts = [tasks EXCEPT ![t].state = "done"]],
                      onFinally(Q), jobs)
    /\ svcEv' = SvcEvent("finally", jobs[t].id, "-")
    /\ UNCHANGED <<ncalls, nextId, jobs, pendingFetches, totalResponseTime,
                   totalRequests, failedTasks>>

\* clearQueue: asyncQueue.clear()
ClearQueue ==
    /\ SvcUnchanged
    /\ queue' = clearPending(queue)
    /\ tasks' = [t \in 1..Len(tasks) |->
                    IF tasks[t].state = "pending"
                    THEN [tasks[t] EXCEPT !.state = "cleared"] ELSE tasks[t]]
    /\ svcEv' = SvcEvent("clearQueue", 0, "-")
    /\ UNCHANGED <<ncalls, mockUsers, nextId, jobs, cache, accessOrder, stats,
                   pendingFetches, totalResponseTime, totalRequests, isProcessing,
                   activeWorkers, completedTasks, failedTasks>>

\* clearCache: cache.clear(); the keys of concurrentManager and the
\* response times of the service are not part of the model.
ClearCache ==
    /\ SvcUnchanged
    /\ Commit(clear(St))
    /\ pendingFetches' = EmptyMap
    /\ svcEv' = SvcEvent("clearCache", 0, "-")
    /\ UNCHANGED <<ncalls, mockUsers, nextId, jobs, totalResponseTime, totalRequests,
                   queue, isProcessing, activeWorkers, completedTasks, failedTasks, tasks>>

ServiceNext ==
    \/ \E id \in 1..nextId : GetUserById(id)
    \/ \E name \in Names : CreateUser(name)
    \/ \E id \in 1..nextId, name \in Names : UpdateUser(id, name)
    \/ \E id \in 1..nextId : DeleteUser(id)
    \/ \E t \in 1..Len(tasks) : CreateBody(t)
    \/ \E t \in 1..Len(tasks) : FetchBody(t)
    \/ \E t \in 1..Len(tasks) : SvcTaskFinally(t)
    \/ ClearQueue
    \/ ClearCache

(***************************************************************************)
(* Specifications: one per component, and one for the service, which is    *)
(* the only user of its cache and of its queue.                            *)
(***************************************************************************)
Init == CacheInit /\ QueueInit /\ LimiterInit /\ SvcInit

Spec == Init /\ [][CacheNext]_vars

QueueSpec == Init /\ [][QueueNext]_vars

LimiterSpec == Init /\ [][LimiterNext]_vars

ServiceSpec == Init /\ [][ServiceNext]_vars

\* A callback of a started task runs: its operation settles, or the
\* .finally handler of a settled one.
TaskProgress ==
    \E t \in 1..Len(tasks) :
        \/ \E v \in Results : TaskSettle(t, "ok", v)
        \/ \E e \in TaskErrors : TaskSettle(t, "error", e)
        \/ TaskFinally(t)

\* The queue with operations that complete and an event loop that runs:
\* while some operation is outstanding or some handler is due, one of them
\* is eventually served.
QueueFairSpec == QueueSpec /\ WF_vars(TaskProgress)

\* The queue on which clear is never called.
QueueNoClearNext ==
    \/ \E p \in Priorities : Enqueue(p)
    \/ \E t \in 1..Len(tasks), v \in Results : TaskSettle(t, "ok", v)
    \/ \E t \in 1..Len(tasks), e \in TaskErrors : TaskSettle(t, "error", e)
    \/ \E t \in 1..Len(tasks) : TaskFinally(t)

\* Finitely many submissions (at most MaxTasks), no clear, and operations
\* that complete.
QueueLiveSpec == Init /\ [][QueueNoClearNext]_vars /\ WF_vars(TaskProgress)

\* A timer of a started task fires or the .finally handler of a settled
\* task runs.
SvcProgress ==
    \E t \in 1..Len(tasks) : CreateBody(t) \/ FetchBody(t) \/ SvcTaskFinally(t)

\* The service whose simulated delays elapse and whose event loop runs.
ServiceFairSpec == ServiceSpec /\ WF_vars(SvcProgress)

(***************************************************************************)
(* Properties of the queue                                                 *)
(***************************************************************************)
TasksIn(states) == {t \in 1..Len(tasks) : tasks[t].state \in states}

\* C7: activeWorkers counts exactly the operations started whose completion
\* has not been handled yet, and never exceeds maxConcurrent.
C7_ActiveWithinLimit ==
    /\ activeWorkers <= maxConcurrent
    /\ activeWorkers = Cardinality(TasksIn({"running", "settled"}))

\* Every slot is taken and a task has to wait.
C7_Witness ==
    /\ activeWorkers = maxConcurrent
    /\ Cardinality(TasksIn({"running"})) = maxConcurrent
    /\ Len(queue) > 0

\* u is dispatched before t: higher priority, or the same priority and
\* submitted earlier (ids are given in submission order).
Outranks(u, t) ==
    \/ u.priority > t.priority
    \/ u.priority = t.priority /\ u.id < t.id

SortedQueue(items) ==
    \A i, j \in 1..Len(items) : i < j => Outranks(items[i], items[j])

\* The tasks of `items` that the step starts.
StartedOf(items) == {x \in items : tasks'[x.id].state = "running"}

\* C8: the pending sequence is ordered by non-increasing priority, equal
\* priorities in submission order, and a step never starts a task while a
\* task that outranks it stays pending.
C8_PriorityFifoDispatch ==
    [][/\ SortedQueue(queue')
       /\ \A p \in Priorities :
            Enqueue(p) =>
                \A x \in StartedOf(Range(queue) \cup {[id |-> Len(tasks) + 1, priority |-> p]}) :
                    \A u \in Range(queue') : ~Outranks(u, x)
       /\ (\E t \in 1..Len(tasks) : TaskFinally(t)) =>
                \A x \in StartedOf(Range(queue)) :
                    \A u \in Range(queue') : ~Outranks(u, x)]_vars

\* A task submitted later runs while a task submitted before it still
\* waits, and two tasks of one priority wait in submission order.
C8_Witness ==
    /\ \E t \in TasksIn({"running"}) : \E i \in 1..Len(queue) : queue[i].id < t
    /\ \E i, j \in 1..Len(queue) : i < j /\ queue[i].priority = queue[j].priority

\* C9: no task is started more than once; the promise of a task is settled
\* exactly once, when its operation completes and with the outcome of that
\* operation; every completion adds one to exactly one of the tallies.
C9_StartedAndSettledOnce ==
    /\ \A t \in 1..Len(tasks) :
        /\ tasks[t].starts <= 1
        /\ tasks[t].settles <= 1
        /\ tasks[t].state \in {"pending", "cleared"} =>
              tasks[t].starts = 0 /\ tasks[t].settles = 0 /\ tasks[t].future.state = "pending"
        /\ tasks[t].state = "running" =>
              tasks[t].starts = 1 /\ tasks[t].settles = 0 /\ tasks[t].future.state = "pending"
        /\ tasks[t].state \in {"settled", "done"} =>
              /\ tasks[t].starts = 1 /\ tasks[t].settles = 1
              /\ tasks[t].future.state =
                    (IF tasks[t].outcome.kind = "ok" THEN "resolved" ELSE "rejected")
              /\ tasks[t].future.value = tasks[t].outcome.value
    /\ completedTasks = Cardinality({t \in 1..Len(tasks) : tasks[t].outcome.kind = "ok"})
    /\ failedTasks = Cardinality({t \in 1..Len(tasks) : tasks[t].outcome.kind = "error"})

\* A task that waited has completed, after one success and one failure.
C9_Witness ==
    /\ completedTasks >= 1 /\ failedTasks >= 1
    /\ \E t \in TasksIn({"done"}) : t > maxConcurrent
    /\ \E t \in TasksIn({"settled"}) : TRUE

\* The pending tasks that the step starts.
NewlyStarted ==
    {u \in 1..Len(tasks) : tasks[u].state = "pending" /\ tasks'[u].state = "running"}

\* C17: when the operation of a task fails, failedTasks grows by one,
\* completedTasks stays and the task's promise is rejected with the failure;
\* the completion handler that follows gives the slot back and dispatches:
\* the first pending task, if there is one, is started.
C17_FailureFreesSlot ==
    [][\A t \in 1..Len(tasks) :
          /\ \A e \in TaskErrors :
                TaskSettle(t, "error", e) =>
                    /\ failedTasks' = failedTasks + 1
                    /\ completedTasks' = completedTasks
                    /\ tasks'[t].future = [state |-> "rejected", value |-> e]
                    /\ activeWorkers' = activeWorkers
          /\ (TaskFinally(t) /\ tasks[t].outcome.kind = "error") =>
                    /\ activeWorkers' = activeWorkers - 1 + Cardinality(NewlyStarted)
                    /\ IF queue = <<>> THEN NewlyStarted = {}
                       ELSE Head(queue).id \in NewlyStarted /\ queue' = Tail(queue)]_vars

\* The only completion so far is a failure, and a task that had to wait
\* runs in the slot it gave back.
C17_Witness ==
    /\ failedTasks = 1 /\ completedTasks = 0
    /\ Cardinality(TasksIn({"done"})) = 1
    /\ TasksIn({"settled", "cleared"}) = {}
    /\ activeWorkers = maxConcurrent
    /\ \E u \in TasksIn({"running"}) : u > maxConcurrent

\* Some task that was running at a clear() is still running.
SurvivorRunning == \E t \in survivors : tasks[t].state = "running"

\* C18: clear() empties the pending sequence and changes neither
\* activeWorkers nor any started task; a task it removed is never started
\* and its promise is never settled; a task that was running at a clear()
\* stops running only by the completion of its operation, which settles its
\* promise, and it does not run forever.
C18_ClearDropsOnlyPending ==
    /\ [][/\ QueueClear =>
               /\ queue' = <<>>
               /\ activeWorkers' = activeWorkers
               /\ \A x \in Range(queue) : tasks'[x.id].state = "cleared"
               /\ \A t \in 1..Len(tasks) :
                     tasks[t].state # "pending" => tasks'[t] = tasks[t]
          /\ \A t \in 1..Len(tasks) :
               tasks[t].state = "cleared" =>
                   /\ tasks'[t] = tasks[t]
                   /\ tasks[t].starts = 0
                   /\ tasks[t].future.state = "pending"
                   /\ \A i \in 1..Len(queue') : queue'[i].id # t
          /\ \A s \in survivors :
               (tasks[s].state = "running" /\ tasks'[s].state # "running") =>
                   /\ tasks'[s].state = "settled"
                   /\ tasks'[s].settles = 1
                   /\ tasks'[s].future.state # "pending"]_vars
    /\ []<>(~SurvivorRunning)

\* A clear() removed a waiting task while another was running; the running
\* one has completed and settled its promise, the removed one is untouched.
C18_Witness ==
    /\ \E t \in survivors :
          /\ tasks[t].state = "settled"
          /\ tasks[t].future.state # "pending"
    /\ \E u \in TasksIn({"cleared"}) :
          tasks[u].starts = 0 /\ tasks[u].future.state = "pending"
    /\ queue = <<>>

\* C24: after every submission, completion and clear, no dispatch is in
\* progress and no task is pending while a slot is free; the completion
\* step that gives a slot back with tasks pending starts the front one.
C24_WorkConserving ==
    [][/\ ~isProcessing'
       /\ ~(Len(queue') > 0 /\ activeWorkers' < maxConcurrent)
       /\ \A t \in 1..Len(tasks) :
            (TaskFinally(t) /\ queue # <<>>) =>
                /\ tasks[Head(queue).id].state = "pending"
                /\ tasks'[Head(queue).id].state = "running"
                /\ queue' = Tail(queue)]_vars

\* A completion has handed its slot to a task that waited, and tasks still
\* wait with every slot taken.
C24_Witness ==
    /\ Len(queue) > 0
    /\ activeWorkers = maxConcurrent
    /\ TasksIn({"done"}) # {}
    /\ \E u \in TasksIn({"running"}) : u > maxConcurrent

(***************************************************************************)
(* Properties of the service                                               *)
(***************************************************************************)
\* C20: when the task of createUser completes, the cache holds under the
\* key of the new user a live entry whose value is the created user, and a
\* getUserById for that id that follows, with no fetch of the id in flight,
\* is served from the cache.
C20_CreatedUserIsCached ==
    [][/\ \A t \in 1..Len(tasks) :
            CreateBody(t) =>
                /\ nextId \in DOMAIN cache'
                /\ ~expired(cache'[nextId], now')
                /\ cache'[nextId].data = mockUsers'[nextId]
       /\ (/\ svcEv.op = "created" /\ svcEv'.op = "getUserById" /\ svcEv'.id = svcEv.id
           /\ svcEv.id \notin DOMAIN pendingFetches)
            => svcEv'.served = "cache"]_vars

(***************************************************************************)
(* Properties of the rate limiter                                          *)
(***************************************************************************)
\* The number of allowed checks of a client in the interval [t, t + w).
AllowedIn(ip, t, w) ==
    Cardinality({i \in 1..Len(allowedLog[ip]) :
                    t <= allowedLog[ip][i] /\ allowedLog[ip][i] < t + w})

\* C10: for every client, no interval [t, t + burstWindow) holds more than
\* burstCapacity allowed checks and no interval [t, t + timeWindow) more
\* than maxRequests.  An interval holds the most checks when it starts at
\* one of them, so these are the intervals examined.
C10_BothWindowsRespected ==
    \A ip \in Clients : \A i \in 1..Len(allowedLog[ip]) :
        /\ AllowedIn(ip, allowedLog[ip][i], burstWindow) <= burstCapacity
        /\ AllowedIn(ip, allowedLog[ip][i], timeWindow) <= maxRequests

\* A client has used up both limits, and has been allowed again after the
\* windows moved on.
C10_Witness ==
    \E ip \in Clients :
        /\ \E i \in 1..Len(allowedLog[ip]) :
              AllowedIn(ip, allowedLog[ip][i], burstWindow) = burstCapacity
        /\ \E i \in 1..Len(allowedLog[ip]) :
              AllowedIn(ip, allowedLog[ip][i], timeWindow) = maxRequests
        /\ Len(allowedLog[ip]) > maxRequests

\* The allowed checks of a client that lie within a window of length w now.
InWindow(ip, w) == {i \in 1..Len(allowedLog[ip]) : rnow - allowedLog[ip][i] < w}

\* The time of the oldest of them.
OldestIn(ip, w) ==
    allowedLog[ip][CHOOSE i \in InWindow(ip, w) : \A j \in InWindow(ip, w) : i <= j]

\* n is the ceiling of ms / 1000.
IsCeilSeconds(n, ms) == 1000 * (n - 1) < ms /\ ms <= 1000 * n

\* C11: a check is denied exactly when the client's burst sequence holds
\* burstCapacity timestamps within the burst window or its sustained
\* sequence holds maxRequests within the sustained window; a denial reports
\* remaining = 0 and a retryAfter > 0 that is the ceiling of the seconds
\* until the oldest timestamp of the binding window leaves it, the burst
\* window binding whenever it is full.
C11_DenialContract ==
    [][\A ip \in Clients :
          (Check(ip) /\ lastCheck'.ip = ip) =>
            LET r == lastCheck'.result
                nb == Cardinality(InWindow(ip, burstWindow))
                ns == Cardinality(InWindow(ip, timeWindow))
            IN /\ ~r.allowed <=> (nb = burstCapacity \/ ns = maxRequests)
               /\ ~r.allowed =>
                    /\ r.remaining = 0
                    /\ r.retryAfter > 0
                    /\ IF nb = burstCapacity
                       THEN /\ Len(requests'[ip].burstTimestamps) = burstCapacity
                            /\ IsCeilSeconds(r.retryAfter,
                                   OldestIn(ip, burstWindow) + burstWindow - rnow)
                       ELSE /\ Len(requests'[ip].timestamps) = maxRequests
                            /\ IsCeilSeconds(r.retryAfter,
                                   OldestIn(ip, timeWindow) + timeWindow - rnow)]_vars

\* A denial with both windows full, where the burst window asks for a
\* shorter wait than the sustained window would, after the sustained window
\* alone has denied the other client.
C11_Witness ==
    LET ip == lastCheck.ip
    IN /\ ip \in Clients
       /\ ~lastCheck.result.allowed
       /\ Cardinality(InWindow(ip, burstWindow)) = burstCapacity
       /\ Cardinality(InWindow(ip, timeWindow)) = maxRequests
       /\ OldestIn(ip, burstWindow) + burstWindow < OldestIn(ip, timeWindow) + timeWindow
       /\ lastCheck.result.retryAfter = 1
       /\ \E other \in Clients \ {ip} :
             /\ other \notin burstDenied
             /\ Cardinality(InWindow(other, timeWindow)) = maxRequests

\* The client's burst sequence is empty or its oldest timestamp is at least
\* burstWindow old.
BurstElapsed(ip) ==
    \/ ip \notin DOMAIN requests
    \/ requests[ip].burstTimestamps = <<>>
    \/ rnow - requests[ip].burstTimestamps[1] >= burstWindow

\* C12: a client the burst window has denied is allowed by a check made
\* once burstWindow has elapsed since the oldest timestamp of its burst
\* sequence, provided fewer than maxRequests of its allowed checks lie
\* within the sustained window at that time.
C12_AllowedAfterBurstWindow ==
    [][\A ip \in Clients :
          (/\ Check(ip) /\ lastCheck'.ip = ip
           /\ ip \in burstDenied
           /\ BurstElapsed(ip)
           /\ Cardinality(InWindow(ip, timeWindow)) < maxRequests)
          => lastCheck'.result.allowed]_vars

\* burstCapacity checks were allowed, the burst window denied the next, and
\* the check made exactly burstWindow after the first of them is allowed.
C12_Witness ==
    LET ip == lastCheck.ip
    IN /\ ip \in burstDenied
       /\ lastCheck.result.allowed
       /\ Len(allowedLog[ip]) = burstCapacity + 1
       /\ Last(allowedLog[ip]) = rnow
       /\ rnow - allowedLog[ip][1] = burstWindow

\* The sequences of a client's record; a client without record has none.
SeqsOf(reqs, ip) ==
    IF ip \in DOMAIN reqs THEN reqs[ip]
    ELSE [timestamps |-> <<>>, burstTimestamps |-> <<>>]

\* new holds no timestamp that old does not hold.
NothingAdded(old, new) == Range(new) \subseteq Range(old) /\ Len(new) <= Len(old)

\* C25: an allowed check leaves both sequences of the client ending with
\* the current time and one longer than the client's allowed checks within
\* the window, and reports remaining = maxRequests minus the new sustained
\* length, which is >= 0, and reset = now + timeWindow; a denied check adds
\* no timestamp to either sequence.
C25_RecordsOnlyAllowed ==
    [][\A ip \in Clients :
          (Check(ip) /\ lastCheck'.ip = ip) =>
            LET r == lastCheck'.result
                old == SeqsOf(requests, ip)
                new == SeqsOf(requests', ip)
            IN IF r.allowed
               THEN /\ Len(new.timestamps) = Cardinality(InWindow(ip, timeWindow)) + 1
                    /\ Len(new.burstTimestamps) = Cardinality(InWindow(ip, burstWindow)) + 1
                    /\ Last(new.timestamps) = rnow
                    /\ Last(new.burstTimestamps) = rnow
                    /\ r.remaining = maxRequests - Len(new.timestamps)
                    /\ r.remaining >= 0
                    /\ r.reset = rnow + timeWindow
               ELSE /\ NothingAdded(old.timestamps, new.timestamps)
                    /\ NothingAdded(old.burstTimestamps, new.burstTimestamps)
                    /\ allowedLog' = allowedLog]_vars

\* A client that the burst window denied has later used its last sustained
\* request: the check is allowed and reports remaining = 0.
C25_Witness ==
    LET ip == lastCheck.ip
    IN /\ ip \in burstDenied
       /\ lastCheck.result.allowed
       /\ lastCheck.result.remaining = 0
       /\ Len(requests[ip].timestamps) = maxRequests
       /\ Last(requests[ip].timestamps) = rnow

\* The records of a limiter that never pruned and never swept: every client
\* with an allowed check holds all its allowed times in both sequences.
Unswept ==
    [ip \in {c \in Clients : allowedLog[c] # <<>>} |->
        [timestamps |-> allowedLog[ip], burstTimestamps |-> allowedLog[ip]]]

\* C26: the decision of every check (allowed, retryAfter, remaining, limit,
\* reset) is the one computed from the times of the client's allowed checks
\* alone, whatever sweeps ran before it, and after a sweep no stored record
\* has both sequences empty.
C26_SweepInvisible ==
    [][/\ \A ip \in Clients :
            (Check(ip) /\ lastCheck'.ip = ip) =>
                lastCheck'.result = isAllowed(Unswept, ip, rnow).result
       /\ LimiterSweep =>
            \A ip \in DOMAIN requests' :
                ~(Len(requests'[ip].timestamps) = 0
                    /\ Len(requests'[ip].burstTimestamps) = 0)]_vars

\* The record of another client has been swept away, the sustained sequence
\* of the checked client has lost its first time, and the check made at the
\* present time is denied.
C26_Witness ==
    LET ip == lastCheck.ip
    IN /\ ip \in Clients
       /\ ~lastCheck.result.allowed
       /\ lastCheck.result.reset = rnow + 1000 * lastCheck.result.retryAfter
       /\ Len(requests[ip].timestamps) < Len(allowedLog[ip])
       /\ \E c \in Clients \ {ip} : c \notin DOMAIN requests /\ allowedLog[c] # <<>>

\* Every submitted task has been started once and its promise is settled,
\* nothing is pending and no worker is active.
AllServed ==
    /\ Len(queue) = 0
    /\ activeWorkers = 0
    /\ \A t \in 1..Len(tasks) :
          tasks[t].starts = 1 /\ tasks[t].future.state # "pending"

\* C27: when clear is never called, finitely many tasks are submitted and
\* every started operation completes, the queue ends in a state where every
\* submitted task was started and has its promise settled, with queueSize =
\* 0 and activeWorkers = 0.
C27_EveryTaskServed == <>[]AllServed

\* More tasks than slots were submitted, all are served, some failed and
\* some succeeded.
C27_Witness ==
    /\ Len(tasks) > maxConcurrent + 1
    /\ AllServed
    /\ completedTasks > 0
    /\ failedTasks > 0

\* The fetch of every getUserById call has settled, so the call and the
\* calls that joined it have returned, and no key is registered in flight.
LookupsDone ==
    /\ pendingFetches = EmptyMap
    /\ \A t \in 1..Len(tasks) :
          jobs[t].kind = "fetch" => tasks[t].state \in {"settled", "done"}

\* C28: under any interleaving with clearQueue, clearCache and the other
\* operations, when the delays elapse, every getUserById call returns and
\* no cache key stays registered as in flight: from some point on, every
\* fetch has settled and nothing is registered.
C28_LookupsReturn == <>[]LookupsDone

\* No task of the service is waiting, running or about to give its slot
\* back.
Quiet == TasksIn({"pending", "running", "settled"}) = {}

Coherent ==
    \A id \in DOMAIN cache :
        ~expired(cache[id], now) =>
            id \in DOMAIN mockUsers /\ cache[id].data = mockUsers[id]

\* C29: in every state where no user operation is in progress, a live cache
\* entry of a user equals the record of that id in the user table, and no
\* live entry exists for an id the table does not hold.
C29_CacheCoherent == Quiet => Coherent

\* A fetch was submitted before an update of the same user and completed
\* after it; the cache holds the updated name.
C29_Witness ==
    /\ Quiet
    /\ \E t, u \in 1..Len(tasks) :
          /\ t < u
          /\ jobs[t].kind = "fetch" /\ jobs[u].kind = "update"
          /\ jobs[t].id = jobs[u].id
          /\ tasks[t].state = "done" /\ tasks[u].state = "done"
          /\ svcEv = SvcEvent("finally", jobs[t].id, "-")
          /\ jobs[t].id \in DOMAIN cache
          /\ cache[jobs[t].id].data = jobs[u].name
          /\ jobs[u].name # 1

====
